---- MODULE Spec2Model ----
(***************************************************************************)
(* A model of streamlit_app.py: the ClinicalTrials.gov v2 search page.     *)
(*                                                                         *)
(* parse_studies_to_table and fetch_studies_v2 are operators that compute  *)
(* what the Python code computes, exceptions included; main is the script  *)
(* that Streamlit runs from top to bottom on every interaction.            *)
(***************************************************************************)
EXTENDS Integers, Sequences, FiniteSets, TLC

VARIABLES
    registry,   \* what the registry answers to the query of the form
    pressed,    \* what st.button("Search") returned in this run of the script
    data,       \* the outcome of the call fetch_studies_v2(...) of this run
    df,         \* the outcome of the call parse_studies_to_table(data) of this run
    shown,      \* what the run put on the page, in order
    escaped     \* whether an exception left main

vars == <<registry, pressed, data, df, shown, escaped>>

---------------------------------------------------------------------------
(* JSON values as Python holds them after response.json(): each value     *)
(* carries its type, as isinstance sees it.                                *)

Null == [t |-> "null"]
Str(s) == [t |-> "str", s |-> s]
Num(n) == [t |-> "num", n |-> n]
List(q) == [t |-> "list", l |-> q]
Dict(f) == [t |-> "dict", d |-> f]

IsStr(v) == v.t = "str"
IsList(v) == v.t = "list"
IsDict(v) == v.t = "dict"

EmptyMap == [k \in {} |-> Null]

(* The outcome of a call: a returned value, a raised exception, or no call. *)
Ok(v) == [kind |-> "ok", val |-> v]
Raise(e) == [kind |-> "raise", exc |-> e]
NoCall == [kind |-> "none"]

IsOk(o) == o.kind = "ok"
IsRaise(o) == o.kind = "raise"

---------------------------------------------------------------------------
(* Python's operations on these values.                                    *)

\* key in mapping
HasKey(m, k) == k \in DOMAIN m.d

\* value.get(key, default): only a dict has the method
Get(v, k, default) ==
    IF ~IsDict(v) THEN Raise("AttributeError")
    ELSE IF HasKey(v, k) THEN Ok(v.d[k]) ELSE Ok(default)

\* value[key]
Subscript(v, k) ==
    IF ~IsDict(v) THEN Raise("TypeError")
    ELSE IF HasKey(v, k) THEN Ok(v.d[k]) ELSE Raise("KeyError")

\* bool(value)
Truthy(v) ==
    CASE v.t = "null" -> FALSE
      [] v.t = "str" -> v.s # ""
      [] v.t = "num" -> v.n # 0
      [] v.t = "list" -> Len(v.l) # 0
      [] v.t = "dict" -> DOMAIN v.d # {}

\* a or b
PyOr(a, b) == IF Truthy(a) THEN a ELSE b

RECURSIVE Concat(_)
Concat(q) ==
    IF Len(q) = 0 THEN ""
    ELSE IF Len(q) = 1 THEN q[1].s
    ELSE q[1].s \o ", " \o Concat(Tail(q))

RECURSIVE ConcatNoSpace(_)
ConcatNoSpace(q) ==
    IF Len(q) = 0 THEN ""
    ELSE IF Len(q) = 1 THEN q[1].s
    ELSE q[1].s \o "," \o ConcatNoSpace(Tail(q))

\* a variant of Join: ",".join(list)
JoinNoSpace(v) ==
    IF \A i \in 1..Len(v.l) : IsStr(v.l[i])
    THEN Ok(Str(ConcatNoSpace(v.l)))
    ELSE Raise("TypeError")

\* ", ".join(list): every element must be a str
Join(v) ==
    IF \A i \in 1..Len(v.l) : IsStr(v.l[i])
    THEN Ok(Str(Concat(v.l)))
    ELSE Raise("TypeError")

---------------------------------------------------------------------------
(* parse_studies_to_table                                                  *)

\* the keys read from a study, in the order the code reads them
FieldNames ==
    <<"nctId", "title", "studyPageUrl", "status", "briefSummary",
      "conditions", "interventions", "sponsor", "phase", "startDate",
      "primaryCompletionDate", "completionDate", "lastUpdatePostDate">>

\* the keys of a row, in the order of the dict literal
Columns ==
    <<"nctId", "Study Title", "Study URL", "Study Status", "Brief Summary",
      "Conditions", "Interventions", "Sponsor", "Phases", "Start Date",
      "Primary Completion Date", "Completion Date", "Last Update Posted">>

Fields == {FieldNames[i] : i \in 1..Len(FieldNames)}
ColumnSet == {Columns[i] : i \in 1..Len(Columns)}

\* the study key whose value the row holds under column c
FieldOf(c) == FieldNames[CHOOSE i \in 1..Len(Columns) : Columns[i] = c]

\* a variant of Default: study.get(key) for the keys read as they are
DefaultNone(field) ==
    IF field \in {"conditions", "interventions"} THEN List(<<>>) ELSE Null

\* the second argument of each study.get(key, default)
Default(field) ==
    IF field \in {"conditions", "interventions"} THEN List(<<>>) ELSE Str("")

\* the fields followed by "if isinstance(x, list): x = ', '.join(x)"
JoinedFields == {"conditions", "interventions", "phase"}

\* a variant of SponsorName: 'agency' is read only when 'name' is not a key
SponsorNameByKey(sponsor) ==
    IF HasKey(sponsor, "name") THEN sponsor.d["name"]
    ELSE Get(sponsor, "agency", Str("")).val

\* sponsor.get("name", "") or sponsor.get("agency", "")
SponsorName(sponsor) ==
    PyOr(Get(sponsor, "name", Str("")).val, Get(sponsor, "agency", Str("")).val)

\* the local variable the code computes for one key of a study (a dict)
Extract(study, field) ==
    LET v == Get(study, field, Default(field)).val IN
    IF field \in JoinedFields /\ IsList(v) THEN Join(v)
    ELSE IF field = "sponsor" /\ IsDict(v) THEN Ok(SponsorName(v))
    ELSE Ok(v)

\* one pass of the loop body: the row of a study, or the exception it raises
BuildRow(study) ==
    IF ~IsDict(study) THEN Get(study, "nctId", Str(""))
    ELSE IF \E f \in Fields : IsRaise(Extract(study, f))
    THEN Extract(study, CHOOSE f \in Fields : IsRaise(Extract(study, f)))
    ELSE Ok([c \in ColumnSet |-> Extract(study, FieldOf(c)).val])

\* for study in studies_data: ... table_rows.append(row)
RECURSIVE Loop(_, _)
Loop(studies_data, table_rows) ==
    IF Len(studies_data) = 0 THEN Ok(table_rows)
    ELSE LET row == BuildRow(Head(studies_data)) IN
         IF IsRaise(row) THEN row
         ELSE Loop(Tail(studies_data), Append(table_rows, row.val))

\* a variant of MissingData: not isinstance(json_data, dict)
MissingDataNotDict(json_data) == ~IsDict(json_data)

\* not isinstance(json_data, dict) or "data" not in json_data
MissingData(json_data) == ~IsDict(json_data) \/ ~HasKey(json_data, "data")

\* A DataFrame is modelled by the sequence of its rows; pd.DataFrame() and
\* pd.DataFrame([]) are both the table with no row.
parse_studies_to_table(json_data) ==
    IF MissingData(json_data) THEN Ok(<<>>)
    ELSE LET inner == Subscript(json_data, "data") IN
         IF IsRaise(inner) THEN inner
         ELSE LET studies_data == Get(inner.val, "studies", List(<<>>)) IN
              IF IsRaise(studies_data) THEN studies_data
              ELSE IF ~IsList(studies_data.val) THEN Ok(<<>>)
              ELSE Loop(studies_data.val.l, <<>>)

\* df.empty
Empty(table) == Len(table) = 0

---------------------------------------------------------------------------
(* fetch_studies_v2: what requests.get met decides the outcome.            *)

ConnFail == [kind |-> "conn_error"]
Http(status, body) == [kind |-> "http", status |-> status, body |-> body]
\* a body that is not JSON
NotJson == [t |-> "invalid"]

fetch_studies_v2(reply) ==
    IF reply.kind = "conn_error" THEN Raise("ConnectionError")
    ELSE IF reply.status >= 400 /\ reply.status < 600 THEN Raise("HTTPError")
    ELSE IF reply.body.t = "invalid" THEN Raise("JSONDecodeError")
    ELSE Ok(reply.body)

---------------------------------------------------------------------------
(* main                                                                    *)

\* the classes of the exceptions the calls above raise: all derive from
\* Exception (HTTPError and ConnectionError through RequestException,
\* JSONDecodeError through ValueError)
ExceptionClasses ==
    {"HTTPError", "ConnectionError", "JSONDecodeError",
     "AttributeError", "TypeError", "KeyError"}

\* a variant of Except: the clause "except Exception" is missing
ExceptHTTPErrorOnly(exc) ==
    IF exc = "HTTPError" THEN [caught |-> TRUE, msg |-> "error_http"]
    ELSE [caught |-> FALSE, msg |-> ""]

\* the except clauses of main, tried in order
Except(exc) ==
    IF exc = "HTTPError" THEN [caught |-> TRUE, msg |-> "error_http"]
    ELSE IF exc \in ExceptionClasses THEN [caught |-> TRUE, msg |-> "error"]
    ELSE [caught |-> FALSE, msg |-> ""]

\* the state a run leaves when exc is raised after `before` was shown
Raised(fetched, parsed, before, exc) ==
    LET h == Except(exc) IN
    [data |-> fetched, df |-> parsed,
     shown |-> IF h.caught THEN Append(before, h.msg) ELSE before,
     escaped |-> ~h.caught]

\* the body of "if st.button('Search'):"
SearchBody(reply) ==
    LET fetched == fetch_studies_v2(reply) IN
    IF IsRaise(fetched) THEN Raised(fetched, NoCall, <<>>, fetched.exc)
    ELSE LET parsed == parse_studies_to_table(fetched.val) IN
         IF IsRaise(parsed) THEN Raised(fetched, parsed, <<"params">>, parsed.exc)
         ELSE [data |-> fetched, df |-> parsed,
               shown |-> IF Empty(parsed.val)
                         THEN <<"params", "no_results">>
                         ELSE <<"params", "table_header", "dataframe">>,
               escaped |-> FALSE]

---------------------------------------------------------------------------
(* The replies the server may give.                                        *)

MaxStudies == 2     \* the longest studies list of several elements
MaxFields == 1      \* the most keys of a study whose values vary freely
MaxListLen == 2     \* the longest list held by a key of a study

SeqsUpTo(S, n) == UNION {[1..m -> S] : m \in 0..n}

\* a mapping with the single key k
One(k, v) == Dict(k :> v)

Scalars == {Str("NCT001"), Str(""), Null, Num(7)}
\* lists of strings, and lists that hold something else
Strings == {Str("Lung Cancer"), Str("EGFR+")}
MixedLists == {<<Null>>, <<Str("EGFR+"), Num(7)>>, <<Dict(EmptyMap)>>}
Lists == {List(q) : q \in SeqsUpTo(Strings, MaxListLen) \cup MixedLists}
NameVals == {Str(""), Null, Str("Acme")}
AgencyVals == {Str("NIH")}
Mappings ==
    {Dict(EmptyMap)}
    \cup {One("name", n) : n \in NameVals}
    \cup {One("agency", a) : a \in AgencyVals}
    \cup {Dict(("name" :> n) @@ ("agency" :> a)) : n \in NameVals, a \in AgencyVals}

\* what a key of a study may hold
FieldVals == Scalars \cup Lists \cup Mappings

\* the studies with at most MaxFields keys, each holding any value
Studies ==
    {Dict(f) : f \in UNION {[K -> FieldVals] :
                  K \in {S \in SUBSET Fields : Cardinality(S) <= MaxFields}}}

ExampleStudy ==
    Dict(("nctId" :> Str("NCT001"))
         @@ ("conditions" :> List(<<Str("Lung Cancer"), Str("EGFR+")>>))
         @@ ("phase" :> List(<<Str("Phase 2")>>)))

\* the elements of the longer studies lists: studies and values that are none
ListedElems ==
    {Dict(EmptyMap), ExampleStudy, One("nctId", Str("NCT002")),
     One("conditions", List(<<Num(7)>>)),
     Null, Str("NCT001"), Num(7), List(<<>>)}

StudyLists ==
    {<<s>> : s \in Studies} \cup SeqsUpTo(ListedElems, MaxStudies)

\* {"data": {"studies": [...]}}
Wrap(q) == One("data", One("studies", List(q)))

WellFormed == {Wrap(q) : q \in StudyLists}

\* responses with no list at data.studies
Malformed ==
    {Null, Str("error"), Num(7), List(<<>>), Dict(EmptyMap),
     One("error", Str("bad request"))}
    \cup {One("data", v) : v \in {Null, Str(""), Num(0), List(<<>>), Dict(EmptyMap)}}
    \cup {One("data", One("studies", v)) :
             v \in {Null, Str("none"), Num(0), Dict(EmptyMap)}}
    \cup {One("studies", List(q)) : q \in SeqsUpTo(ListedElems, MaxStudies)}

Responses == WellFormed \cup Malformed

Replies ==
    {ConnFail}
    \cup {Http(200, b) : b \in Responses \cup {NotJson}}
    \cup {Http(s, b) : s \in {404, 500}, b \in {NotJson, Wrap(<<>>), Wrap(<<ExampleStudy>>)}}

---------------------------------------------------------------------------
(* The runs of the script.                                                 *)

\* a run in which no button was pressed: the page shows the form only
Init ==
    /\ registry \in Replies
    /\ pressed = FALSE
    /\ data = NoCall
    /\ df = NoCall
    /\ shown = <<>>
    /\ escaped = FALSE

\* the user edits a field of the form: the script runs, the button is not pressed
Rerun ==
    /\ pressed' = FALSE
    /\ data' = NoCall
    /\ df' = NoCall
    /\ shown' = <<>>
    /\ escaped' = FALSE
    /\ UNCHANGED registry

\* the user presses Search: the script runs with st.button(...) true
Search ==
    LET run == SearchBody(registry) IN
    /\ pressed' = TRUE
    /\ data' = run.data
    /\ df' = run.df
    /\ shown' = run.shown
    /\ escaped' = run.escaped
    /\ UNCHANGED registry

Next == Rerun \/ Search

Spec == Init /\ [][Next]_vars

---------------------------------------------------------------------------
(* The vocabulary of the properties, stated without the operators above.   *)

\* the thirteen source keys and the key of the record each one feeds
KeyPairs ==
    {<<"nctId", "nctId">>, <<"title", "Study Title">>,
     <<"studyPageUrl", "Study URL">>, <<"status", "Study Status">>,
     <<"briefSummary", "Brief Summary">>, <<"conditions", "Conditions">>,
     <<"interventions", "Interventions">>, <<"sponsor", "Sponsor">>,
     <<"phase", "Phases">>, <<"startDate", "Start Date">>,
     <<"primaryCompletionDate", "Primary Completion Date">>,
     <<"completionDate", "Completion Date">>,
     <<"lastUpdatePostDate", "Last Update Posted">>}

RecordKeys == {p[2] : p \in KeyPairs}

\* a list is reachable at data.studies
HasStudiesList(r) ==
    /\ r.t = "dict"
    /\ "data" \in DOMAIN r.d
    /\ r.d["data"].t = "dict"
    /\ "studies" \in DOMAIN r.d["data"].d
    /\ r.d["data"].d["studies"].t = "list"

StudiesOf(r) == r.d["data"].d["studies"].l

\* a list is at the top-level key 'studies' of a document with no 'data' key
HasTopLevelStudies(r) ==
    /\ r.t = "dict"
    /\ "data" \notin DOMAIN r.d
    /\ "studies" \in DOMAIN r.d
    /\ r.d["studies"].t = "list"

\* this run called parse_studies_to_table on the response it fetched
Parsed == pressed /\ data.kind = "ok" /\ df.kind # "none"

\* this run parsed a studies list and got a table back: rows[i] is of studies[i]
Tabled == Parsed /\ df.kind = "ok" /\ HasStudiesList(data.val)
TabledIndexes == DOMAIN df.val \cap DOMAIN StudiesOf(data.val)

AllStrings(q) == \A i \in 1..Len(q) : q[i].t = "str"

\* the elements of a list of strings, in order, with ", " between neighbours
RECURSIVE CommaJoined(_)
CommaJoined(q) ==
    IF Len(q) = 0 THEN ""
    ELSE IF Len(q) = 1 THEN q[1].s
    ELSE CommaJoined(SubSeq(q, 1, Len(q) - 1)) \o ", " \o q[Len(q)].s

\* a value Python takes for false
Falsy(v) == v \in {Null, Str(""), Num(0), List(<<>>), Dict(EmptyMap)}

---------------------------------------------------------------------------
(* C1: whenever the fetched response has no list at data.studies (it is    *)
(* not a mapping, has no 'data' key, its 'data' is not a mapping, or its   *)
(* data.studies is not a list), parse_studies_to_table returns the empty   *)
(* table and does not raise.                                               *)
C1_NoStudiesListGivesEmptyTable ==
    (Parsed /\ ~HasStudiesList(data.val)) => df = Ok(<<>>)

\* a mapping whose lists hold strings only
WellShaped(study) ==
    /\ study.t = "dict"
    /\ \A k \in DOMAIN study.d :
          study.d[k].t = "list" => AllStrings(study.d[k].l)

(* C2: whenever data.studies is a list, parse_studies_to_table does not    *)
(* raise, whatever the elements of the list and their fields are, and the  *)
(* table holds a row for every element that is a mapping whose lists hold  *)
(* strings only.                                                           *)
C2_NeverRaisesOnStudiesList ==
    (Parsed /\ HasStudiesList(data.val)) =>
        /\ df.kind = "ok"
        /\ Len(df.val) >=
              Cardinality({i \in DOMAIN StudiesOf(data.val) :
                              WellShaped(StudiesOf(data.val)[i])})

\* a value of a type the key is not meant to hold
Unexpected(key, v) ==
    \/ v.t = "dict" /\ key # "sponsor"
    \/ v.t = "list" /\ key = "sponsor"
    \/ v.t = "list" /\ ~AllStrings(v.l)

(* C3: in every study, a field whose value has an unexpected type (a       *)
(* mapping for a field other than sponsor, a list for sponsor, a list      *)
(* whose elements are not all strings) is the empty string in the record   *)
(* of that study: the call does not raise and does not pass the value on.  *)
C3_UnexpectedTypeGivesEmptyString ==
    (Parsed /\ HasStudiesList(data.val)) =>
        \A i \in DOMAIN StudiesOf(data.val) :
            LET study == StudiesOf(data.val)[i] IN
            study.t = "dict" =>
                \A p \in KeyPairs :
                    (p[1] \in DOMAIN study.d /\ Unexpected(p[1], study.d[p[1]])) =>
                        /\ df.kind = "ok"
                        /\ i \in DOMAIN df.val
                        /\ df.val[i][p[2]] = Str("")

ListFields == {"conditions", "interventions", "phase"}

C5_SponsorNameIfPresent ==
    Tabled =>
        \A i \in TabledIndexes :
            LET study == StudiesOf(data.val)[i] IN
            ("sponsor" \in DOMAIN study.d /\ study.d["sponsor"].t = "dict") =>
                LET sponsor == study.d["sponsor"].d IN
                df.val[i]["Sponsor"] =
                    IF "name" \in DOMAIN sponsor THEN sponsor["name"]
                    ELSE IF "agency" \in DOMAIN sponsor THEN sponsor["agency"]
                    ELSE Str("")

(* C5, amended: when sponsor is a mapping, Sponsor is the value of 'name'  *)
(* if that key is present and its value is not empty (not false for        *)
(* Python); otherwise the value of 'agency' if present; otherwise the      *)
(* empty string.                                                           *)
C5_SponsorNameIfNotEmpty ==
    Tabled =>
        \A i \in TabledIndexes :
            LET study == StudiesOf(data.val)[i] IN
            ("sponsor" \in DOMAIN study.d /\ study.d["sponsor"].t = "dict") =>
                LET sponsor == study.d["sponsor"].d IN
                df.val[i]["Sponsor"] =
                    IF "name" \in DOMAIN sponsor /\ ~Falsy(sponsor["name"])
                    THEN sponsor["name"]
                    ELSE IF "agency" \in DOMAIN sponsor THEN sponsor["agency"]
                    ELSE Str("")

\* a record was made of a study whose sponsor has an empty name and an agency
C5_Witness ==
    /\ Tabled
    /\ \E i \in TabledIndexes :
          /\ StudiesOf(data.val)[i] =
                Dict("sponsor" :> Dict(("name" :> Str("")) @@ ("agency" :> Str("NIH"))))
          /\ df.val[i]["Sponsor"] = Str("NIH")

\* the record of ExampleStudy
ExampleRecord ==
    [c \in RecordKeys |->
        CASE c = "nctId" -> Str("NCT001")
          [] c = "Conditions" -> Str("Lung Cancer, EGFR+")
          [] c = "Phases" -> Str("Phase 2")
          [] OTHER -> Str("")]

(* C6: every record of a returned table has exactly the thirteen keys,    *)
(* and each key whose source key is absent from the study holds the empty  *)
(* string; the study {nctId: "NCT001", conditions: ["Lung Cancer",         *)
(* "EGFR+"], phase: ["Phase 2"]} gives these three values and "" for the   *)
(* other ten.                                                              *)
C6_ThirteenKeysAbsentEmpty ==
    (Parsed /\ df.kind = "ok") =>
        /\ \A i \in DOMAIN df.val :
              /\ DOMAIN df.val[i] = RecordKeys
              /\ Cardinality(DOMAIN df.val[i]) = 13
        /\ HasStudiesList(data.val) =>
              \A i \in TabledIndexes :
                  LET study == StudiesOf(data.val)[i] IN
                  /\ \A p \in KeyPairs :
                        p[1] \notin DOMAIN study.d => df.val[i][p[2]] = Str("")
                  /\ study = ExampleStudy => df.val[i] = ExampleRecord

\* records were made of the example study and of a study with no key
C6_Witness ==
    /\ Tabled
    /\ StudiesOf(data.val) = <<ExampleStudy, Dict(EmptyMap)>>
    /\ Len(df.val) = 2
    /\ df.val[2] = [c \in RecordKeys |-> Str("")]

\* the record of a study parsed on its own
AloneRecord(study) == parse_studies_to_table(Wrap(<<study>>)).val[1]

(* C7: whenever data.studies is a list of n mappings, the call returns a   *)
(* table of exactly n records, the i-th being the record of the i-th       *)
(* study alone: none dropped, doubled, merged or moved.                    *)
C7_OneRecordPerStudyInOrder ==
    (/\ Parsed
     /\ HasStudiesList(data.val)
     /\ \A i \in DOMAIN StudiesOf(data.val) : StudiesOf(data.val)[i].t = "dict") =>
        /\ df.kind = "ok"
        /\ Len(df.val) = Len(StudiesOf(data.val))
        /\ \A i \in DOMAIN df.val : df.val[i] = AloneRecord(StudiesOf(data.val)[i])

(* C8, as claimed: a document whose studies list is at the top-level key   *)
(* 'studies', with no 'data' key, gives one record per study in the order  *)
(* of the list, as the same list at data.studies does.                     *)
C8_TopLevelStudiesNormalized ==
    (/\ Parsed
     /\ HasTopLevelStudies(data.val)
     /\ \A i \in DOMAIN data.val.d["studies"].l :
            WellShaped(data.val.d["studies"].l[i])) =>
        /\ df.kind = "ok"
        /\ Len(df.val) = Len(data.val.d["studies"].l)
        /\ df = parse_studies_to_table(Wrap(data.val.d["studies"].l))

(* C8, amended: only the list at data.studies is read. A document whose    *)
(* studies list is at the top-level key 'studies', with no 'data' key,     *)
(* gives the empty table and no error, whatever the list holds; a table    *)
(* returned for a document whose list is at data.studies has one record    *)
(* per element of the list.                                                *)
C8_OnlyDataStudiesRead ==
    /\ (Parsed /\ HasTopLevelStudies(data.val)) => df = Ok(<<>>)
    /\ Tabled => Len(df.val) = Len(StudiesOf(data.val))

\* a top-level list of two studies was parsed into the empty table
C8_Witness ==
    /\ Parsed
    /\ HasTopLevelStudies(data.val)
    /\ data.val.d["studies"].l = <<ExampleStudy, One("nctId", Str("NCT002"))>>
    /\ df = Ok(<<>>)

\* how many of the things shown are in S
Count(q, S) == Cardinality({i \in DOMAIN q : q[i] \in S})

ErrorShown == Count(shown, {"error_http", "error"})
NoResultsShown == Count(shown, {"no_results"})
TableShown == Count(shown, {"dataframe"})

(* C10: a run without a press fetches nothing and shows nothing. A run     *)
(* with a press lets no exception out and shows exactly one of: an error   *)
(* message, exactly when fetch_studies_v2 raised (an HTTP status of 4xx or *)
(* 5xx, or any other exception: parse_studies_to_table is then not called) *)
(* or parse_studies_to_table raised; the 'no results' message, exactly     *)
(* when the table is empty; the table, exactly when it is not empty.       *)
C10_OneOutcomePerPress ==
    /\ ~escaped
    /\ ~pressed => (data.kind = "none" /\ df.kind = "none" /\ shown = <<>>)
    /\ pressed =>
          /\ data.kind # "none"
          /\ ErrorShown + NoResultsShown + TableShown = 1
          /\ ErrorShown = 1 <=> (data.kind = "raise" \/ df.kind = "raise")
          /\ data.kind = "raise" => df.kind = "none"
          /\ data.kind = "raise" <=>
                (\/ registry.kind = "conn_error"
                 \/ registry.status \in 400..599
                 \/ registry.body.t = "invalid")
          /\ NoResultsShown = 1 <=> (df.kind = "ok" /\ Len(df.val) = 0)
          /\ TableShown = 1 <=> (df.kind = "ok" /\ Len(df.val) > 0)
          /\ (TableShown = 1 \/ NoResultsShown = 1) => shown[1] = "params"

\* a press whose response made parse_studies_to_table raise: an error is shown
C10_Witness ==
    /\ pressed
    /\ data.kind = "ok"
    /\ df.kind = "raise"
    /\ shown = <<"params", "error">>
    /\ ~escaped

====
